---------------------------- MODULE Spec2Model ----------------------------
(***************************************************************************)
(* Market Area Crawler: the keyword tagger, the article classifier         *)
(* (analyze_website), the aggregator (generate_market_report) and the run  *)
(* loop of run_crawler.py / main.py.                                       *)
(*                                                                         *)
(* Representation.                                                         *)
(*  - A Python str is a sequence of characters; a character is a TLA+      *)
(*    string naming it, one letter long except for the a-grave of          *)
(*    'mobilita' and 'proprieta', written "agrave" (upper case "AGRAVE").  *)
(*  - A float that the code rounds to two decimals (sentiment_score,       *)
(*    average_sentiment) is the integer number of hundredths: 60.01 is     *)
(*    6001.  The unrounded mean avg_sentiment = sum / len is kept as the   *)
(*    pair (sum of hundredths, len).                                       *)
(*  - A dict is a function whose DOMAIN is the set of keys present.        *)
(***************************************************************************)
EXTENDS Integers, Sequences, FiniteSets, TLC

VARIABLES
  entry,              \* the script that runs: "main" (main.py) or "run_crawler"
  market_areas,       \* MarketAreaCrawler.market_areas (tracked markets)
  locations,          \* MarketAreaCrawler.locations (tracked locations)
  pc,                 \* position of the running coroutine
  site_idx,           \* index in WEBSITES of the site being analysed
  html,               \* analyze_website: what fetch_page(url) returned for the site
  articles_data,      \* analyze_website: candidates extracted from the page
  cand_idx,           \* analyze_website: index of the candidate being analysed
  analyzed_articles,  \* analyze_website: tagged articles of this site so far
  last_iter,          \* analyze_website: what the latest loop iteration did, if any
  sentiment_calls,    \* analyze_website: calls of analyze_sentiment so far
  all_articles,       \* run_analysis: the collection that is aggregated
  printed,            \* per site, in order: what was logged and printed about it
  report,             \* the dict generate_market_report returned, or NoReport
  outcome,            \* how the run ended
  requests,           \* number of article pages fetched so far in the run
  text,               \* argument of a direct find_market_areas/find_locations call
  found_markets,      \* result of find_market_areas(text)
  found_locations     \* result of find_locations(text)

vars == << entry, market_areas, locations, pc, site_idx, html, articles_data, cand_idx,
           analyzed_articles, last_iter, sentiment_calls, all_articles, printed, report, outcome, requests,
           text, found_markets, found_locations >>

-----------------------------------------------------------------------------
(* Bounds of the model *)

\* number of configured sites a run iterates over (a prefix of WEBSITES)
MaxSites == 2
\* fragments a directly tagged text is built from
MaxFrags == 3
\* articles in a list passed directly to generate_market_report
MaxArticles == 2
\* candidates the pages of all the sites of one run hold together
MaxRunCandidates == 2

-----------------------------------------------------------------------------
(* Strings *)

tecnologia == <<"t","e","c","n","o","l","o","g","i","a">>
finanza == <<"f","i","n","a","n","z","a">>
energia == <<"e","n","e","r","g","i","a">>
automotive == <<"a","u","t","o","m","o","t","i","v","e">>
immobiliare == <<"i","m","m","o","b","i","l","i","a","r","e">>
salute == <<"s","a","l","u","t","e">>
turismo == <<"t","u","r","i","s","m","o">>
italia == <<"i","t","a","l","i","a">>
europa == <<"e","u","r","o","p","a">>
usa == <<"u","s","a">>
cina == <<"c","i","n","a">>
giappone == <<"g","i","a","p","p","o","n","e">>
germania == <<"g","e","r","m","a","n","i","a">>
francia == <<"f","r","a","n","c","i","a">>
regno_unito == <<"r","e","g","n","o"," ","u","n","i","t","o">>

\* MarketAreaCrawler.market_keywords (dict, in insertion order)
market_keywords ==
  << << tecnologia,
        << <<"t","e","c","h">>,
           <<"t","e","c","n","o","l","o","g","i","a">>,
           <<"s","o","f","t","w","a","r","e">>,
           <<"a","i">>,
           <<"i","n","t","e","l","l","i","g","e","n","z","a"," ","a","r","t","i","f","i","c","i","a","l","e">>,
           <<"s","t","a","r","t","u","p">> >> >>,
     << finanza,
        << <<"f","i","n","a","n","z","a">>,
           <<"b","a","n","k","i","n","g">>,
           <<"b","a","n","c","h","e">>,
           <<"i","n","v","e","s","t","i","m","e","n","t","i">>,
           <<"m","e","r","c","a","t","i"," ","f","i","n","a","n","z","i","a","r","i">> >> >>,
     << energia,
        << <<"e","n","e","r","g","i","a">>,
           <<"p","e","t","r","o","l","i","o">>,
           <<"g","a","s">>,
           <<"r","i","n","n","o","v","a","b","i","l","i">>,
           <<"s","o","l","a","r","e">>,
           <<"e","o","l","i","c","o">> >> >>,
     << automotive,
        << <<"a","u","t","o">>,
           <<"a","u","t","o","m","o","t","i","v","e">>,
           <<"v","e","i","c","o","l","i">>,
           <<"t","r","a","s","p","o","r","t","i">>,
           <<"m","o","b","i","l","i","t","agrave">> >> >>,
     << immobiliare,
        << <<"i","m","m","o","b","i","l","i","a","r","e">>,
           <<"r","e","a","l"," ","e","s","t","a","t","e">>,
           <<"c","a","s","e">>,
           <<"p","r","o","p","r","i","e","t","agrave">>,
           <<"e","d","i","l","i","z","i","a">> >> >> >>

\* MarketAreaCrawler.location_keywords (dict, in insertion order)
location_keywords ==
  << << italia,
        << <<"i","t","a","l","i","a">>,
           <<"i","t","a","l","y">>,
           <<"r","o","m","a","n","o">>,
           <<"m","i","l","a","n","o">>,
           <<"n","a","p","o","l","i">>,
           <<"t","o","r","i","n","o">> >> >>,
     << europa,
        << <<"e","u","r","o","p","a">>,
           <<"e","u","r","o","p","e">>,
           <<"u","e">>,
           <<"e","u","r","o","p","e","a","n"," ","u","n","i","o","n">>,
           <<"b","r","u","x","e","l","l","e","s">> >> >>,
     << usa,
        << <<"u","s","a">>,
           <<"a","m","e","r","i","c","a">>,
           <<"s","t","a","t","i"," ","u","n","i","t","i">>,
           <<"w","a","s","h","i","n","g","t","o","n">>,
           <<"n","e","w"," ","y","o","r","k">> >> >>,
     << cina,
        << <<"c","i","n","a">>,
           <<"c","h","i","n","a">>,
           <<"b","e","i","j","i","n","g">>,
           <<"s","h","a","n","g","h","a","i">>,
           <<"h","o","n","g"," ","k","o","n","g">> >> >>,
     << giappone,
        << <<"g","i","a","p","p","o","n","e">>,
           <<"j","a","p","a","n">>,
           <<"t","o","k","y","o">>,
           <<"o","s","a","k","a">> >> >>,
     << germania,
        << <<"g","e","r","m","a","n","i","a">>,
           <<"g","e","r","m","a","n","y">>,
           <<"b","e","r","l","i","n","o">>,
           <<"m","o","n","a","c","o">> >> >> >>

\* upper-case characters and their lower-case forms
UpperToLower ==
  ("A" :> "a") @@ ("B" :> "b") @@ ("C" :> "c") @@ ("D" :> "d") @@ ("E" :> "e") @@ ("F" :> "f") @@ ("G" :> "g") @@ ("H" :> "h") @@ ("I" :> "i") @@ ("J" :> "j") @@ ("K" :> "k") @@ ("L" :> "l") @@ ("M" :> "m") @@ ("N" :> "n") @@ ("O" :> "o") @@ ("P" :> "p") @@ ("Q" :> "q") @@ ("R" :> "r") @@ ("S" :> "s") @@ ("T" :> "t") @@ ("U" :> "u") @@ ("V" :> "v") @@ ("W" :> "w") @@ ("X" :> "x") @@ ("Y" :> "y") @@ ("Z" :> "z") @@ ("AGRAVE" :> "agrave")

UpperChars == DOMAIN UpperToLower

\* str.lower() on one character
LowerChar(c) == IF c \in UpperChars THEN UpperToLower[c] ELSE c

\* variant: the text is matched as it is, not lower-cased
lower_identity(s) == s

RECURSIVE lower(_)
\* str.lower()
lower(s) == IF s = << >> THEN << >> ELSE << LowerChar(Head(s)) >> \o lower(Tail(s))

\* Python's  kw in s  for strings: kw occurs as a contiguous substring of s
Contains(kw, s) ==
  \E i \in 0..(Len(s) - Len(kw)) : \A j \in 1..Len(kw) : s[i + j] = kw[j]

\* Python's  x in lst  for lists
InList(x, lst) == \E i \in 1..Len(lst) : lst[i] = x

\* s[:n]
Prefix(s, n) == SubSeq(s, 1, IF Len(s) < n THEN Len(s) ELSE n)

Range(s) == {s[i] : i \in 1..Len(s)}

-----------------------------------------------------------------------------
(* Configuration: config.py and the literals of main.py's main() *)

\* config.MARKET_AREAS / main(): MARKET_AREAS
MARKET_AREAS(e) ==
  IF e = "main" THEN << tecnologia, finanza, energia, automotive >>
  ELSE << tecnologia, finanza, energia, automotive, immobiliare, salute, turismo >>

\* config.LOCATIONS / main(): LOCATIONS
LOCATIONS(e) ==
  IF e = "main" THEN << italia, europa, usa, cina >>
  ELSE << italia, europa, usa, cina, giappone, germania, francia, regno_unito >>

\* config.WEBSITES / main(): WEBSITES, cut to the first MaxSites sites
WEBSITES(e) ==
  LET all == IF e = "main"
             THEN << "https://www.ansa.it", "https://www.repubblica.it",
                     "https://www.corriere.it", "https://www.ilsole24ore.com" >>
             ELSE << "https://www.ansa.it", "https://www.repubblica.it",
                     "https://www.corriere.it", "https://www.ilsole24ore.com",
                     "https://www.lastampa.it", "https://www.ilgiornale.it" >>
  IN  Prefix(all, MaxSites)

\* MarketAreaCrawler.__init__: the tracked lists are lower-cased
InitMarketAreas(e) == [i \in 1..Len(MARKET_AREAS(e)) |-> lower(MARKET_AREAS(e)[i])]
InitLocations(e) == [i \in 1..Len(LOCATIONS(e)) |-> lower(LOCATIONS(e)[i])]

-----------------------------------------------------------------------------
(* Keyword tagger *)

\* the loop of find_market_areas / find_locations over vocab.items() from the
\* k-th item on: a category is appended once (break) when it is tracked and
\* one of its keywords occurs in the lower-cased text
RECURSIVE FindFrom(_, _, _, _)
FindFrom(vocab, tracked, text_lower, k) ==
  IF k > Len(vocab) THEN << >>
  ELSE LET category == vocab[k][1]
           keywords == vocab[k][2]
           hit == /\ InList(category, tracked)
                  /\ \E j \in 1..Len(keywords) : Contains(keywords[j], text_lower)
       IN  (IF hit THEN << category >> ELSE << >>)
             \o FindFrom(vocab, tracked, text_lower, k + 1)

find_market_areas(t) == FindFrom(market_keywords, market_areas, lower(t), 1)

find_locations(t) == FindFrom(location_keywords, locations, lower(t), 1)

-----------------------------------------------------------------------------
(* Sentiment scorer *)

\* Python's round(num / den, 0) for num >= 0, den > 0: to the nearest integer,
\* a tie to the even one
RoundHalfEven(num, den) ==
  LET q == num \div den
      r == num % den
  IN  IF 2 * r < den THEN q
      ELSE IF 2 * r > den THEN q + 1
      ELSE IF q % 2 = 0 THEN q ELSE q + 1

\* What TextBlob(text).sentiment.polarity does: it returns a polarity in
\* [-1, 1], here in units of 1/10000, or it raises.
Polarities == { 2000, 2002 }

BlobOutcomes ==
  { [raises |-> FALSE, polarity |-> p] : p \in Polarities }
    \cup { [raises |-> TRUE, polarity |-> 0] }

\* variant: 0.0, the dataclass default, returned when TextBlob raises
analyze_sentiment_zeroOnFailure(blob) ==
  IF blob.raises THEN 0
  ELSE RoundHalfEven(blob.polarity + 10000, 2)

\* analyze_sentiment: round((polarity + 1) * 50, 2) in hundredths, and the
\* neutral 50.0 when TextBlob raises
analyze_sentiment(blob) ==
  IF blob.raises THEN 5000
  ELSE RoundHalfEven(blob.polarity + 10000, 2)

-----------------------------------------------------------------------------
(* Aggregator *)

RECURSIVE SumScores(_)
\* sum(a.sentiment_score for a in arts), in hundredths
SumScores(arts) ==
  IF arts = << >> THEN 0 ELSE Head(arts).sentiment_score + SumScores(Tail(arts))

\* variant: the mean rounded to one decimal, round(avg_sentiment, 1)
RoundedMean_oneDecimal(sum, n) == 10 * RoundHalfEven(sum, 10 * n)

\* round(avg_sentiment, 2) where avg_sentiment = sum / n
RoundedMean(sum, n) == RoundHalfEven(sum, n)

\* 'positive' if avg_sentiment > 60 else 'negative' if avg_sentiment < 40
\* else 'neutral', on the unrounded avg_sentiment = sum / n
TrendOf(sum, n) ==
  IF sum > 6000 * n THEN "positive"
  ELSE IF sum < 4000 * n THEN "negative"
  ELSE "neutral"

\* [a for a in articles if market in a.market_areas]
market_articles(articles, market) ==
  SelectSeq(articles, LAMBDA a : InList(market, a.market_areas))

\* [a for a in articles if location in a.locations]
location_articles(articles, location) ==
  SelectSeq(articles, LAMBDA a : InList(location, a.locations))

\* variant: the matrix filter with `or` in place of `and`
relevant_articles_or(articles, market, location) ==
  SelectSeq(articles, LAMBDA a : \/ InList(market, a.market_areas)
                                 \/ InList(location, a.locations))

\* [a for a in articles if market in a.market_areas and location in a.locations]
relevant_articles(articles, market, location) ==
  SelectSeq(articles, LAMBDA a : /\ InList(market, a.market_areas)
                                 /\ InList(location, a.locations))

\* the three-field dict of a markets / locations entry
StatEntry(arts) ==
  [ article_count     |-> Len(arts),
    average_sentiment |-> RoundedMean(SumScores(arts), Len(arts)),
    sentiment_trend   |-> TrendOf(SumScores(arts), Len(arts)) ]

\* the five-field dict of a matrix entry
MatrixEntry(market, location, arts) ==
  [ market            |-> market,
    location          |-> location,
    article_count     |-> Len(arts),
    average_sentiment |-> RoundedMean(SumScores(arts), Len(arts)),
    sentiment_trend   |-> TrendOf(SumScores(arts), Len(arts)) ]

\* key = f"{market}_{location}"
MatrixKey(market, location) == market \o << "_" >> \o location

\* variant: the loop without `if market_articles:`, an empty subset reported
\* as a zero entry
ReportMarkets_zeroEntries(articles) ==
  [ m \in Range(market_areas) |->
      IF market_articles(articles, m) # << >>
      THEN StatEntry(market_articles(articles, m))
      ELSE [ article_count |-> 0, average_sentiment |-> 0,
             sentiment_trend |-> "neutral" ] ]

\* report['markets'] after the loop over self.market_areas
ReportMarkets(articles) ==
  LET present == { m \in Range(market_areas) : market_articles(articles, m) # << >> }
  IN  [ m \in present |-> StatEntry(market_articles(articles, m)) ]

\* report['locations'] after the loop over self.locations
ReportLocations(articles) ==
  LET present == { l \in Range(locations) : location_articles(articles, l) # << >> }
  IN  [ l \in present |-> StatEntry(location_articles(articles, l)) ]

\* report['market_location_matrix'] after the nested loop: the pairs of
\* indices (i, j) whose subset is non-empty each assign their key; a later
\* pair with the same key overwrites an earlier one
ReportMatrix(articles) ==
  LET hits == { p \in (1..Len(market_areas)) \X (1..Len(locations)) :
                  relevant_articles(articles, market_areas[p[1]], locations[p[2]]) # << >> }
      keyOf(p) == MatrixKey(market_areas[p[1]], locations[p[2]])
      later(p, q) == p[1] > q[1] \/ (p[1] = q[1] /\ p[2] >= q[2])
      last(k) == CHOOSE p \in hits : keyOf(p) = k /\ \A q \in hits : keyOf(q) = k => later(p, q)
  IN  [ k \in { keyOf(p) : p \in hits } |->
          MatrixEntry(market_areas[last(k)[1]], locations[last(k)[2]],
                      relevant_articles(articles, market_areas[last(k)[1]],
                                        locations[last(k)[2]])) ]

\* variant: a crawler that keeps a running total between calls, the count of
\* the previous report added to len(articles)
generate_market_report_runningTotal(articles) ==
  [ total_articles         |-> Len(articles) +
                                 (IF report = << >> THEN 0
                                  ELSE report[Len(report)].total_articles),
    markets                |-> ReportMarkets(articles),
    locations              |-> ReportLocations(articles),
    market_location_matrix |-> ReportMatrix(articles) ]

\* generate_market_report (the timestamp, the only field that depends on the
\* clock, is left out)
generate_market_report(articles) ==
  [ total_articles         |-> Len(articles),
    markets                |-> ReportMarkets(articles),
    locations              |-> ReportLocations(articles),
    market_location_matrix |-> ReportMatrix(articles) ]

-----------------------------------------------------------------------------
(* The web, as the run sees it *)

\* article texts and previews the modelled sites serve
T_TechUsa == << "T","e","c","h"," ","U","S","A" >>
T_AiItalyUsa == << "A","I"," ","I","t","a","l","y"," ","U","S","A" >>
T_Gas == << "g","a","s" >>
T_Milano == << "M","i","l","a","n","o" >>

PageTexts == { T_TechUsa, T_AiItalyUsa, T_Gas, T_Milano }

Previews == { T_TechUsa }

RECURSIVE SeqsUpTo(_, _)
\* the sequences over S of length at most n
SeqsUpTo(S, n) ==
  IF n = 0 THEN { << >> }
  ELSE LET prev == SeqsUpTo(S, n - 1)
       IN  prev \cup { Append(s, x) : s \in { t \in prev : Len(t) = n - 1 }, x \in S }

\* what fetch_page(url) yields for a site: None (network error or a status
\* other than 200), an empty body, a page extract_articles_from_page raises
\* on, or a page holding some candidates (given by their preview texts)
SitePages ==
  { [kind |-> k, previews |-> << >>] : k \in {"none", "empty", "broken"} }
    \cup { [kind |-> "html", previews |-> ps] : ps \in SeqsUpTo(Previews, MaxRunCandidates) }

\* what fetch_page(article url) yields: None, an empty body, a page
\* extract_text_from_html raises on, or a page with the given text
ArticlePages ==
  { [kind |-> k, text |-> << >>] : k \in {"none", "empty", "broken"} }
    \cup { [kind |-> "html", text |-> t] : t \in PageTexts }

\* no page fetched yet
NoPage == [kind |-> "unset", previews |-> << >>]

\* fetch_page's result is falsy (None or '') : `if not html`
Falsy(page) == page.kind \in {"none", "empty"}

\* extract_text_from_html: the page's text
extract_text_from_html(page) == page.text

\* extract_articles_from_page: title, url and a 500-character preview per
\* candidate, at most 20 of them
extract_articles_from_page(page, base_url) ==
  Prefix([ k \in 1..Len(page.previews) |->
             [ title   |-> k,
               url     |-> << base_url, k >>,
               content |-> Prefix(page.previews[k], 500) ] ], 20)

-----------------------------------------------------------------------------
(* analyze_website: the body of the loop over articles_data *)

\* content = extract_text_from_html(article_html) if article_html else
\* article_data['content']
ContentOf(cand, page) ==
  IF ~Falsy(page) THEN extract_text_from_html(page) ELSE cand.content

\* variant: `if found_markets or found_locations`
Tagged_or(cand, page) ==
  IF page.kind = "broken"
  THEN [ raised |-> TRUE, content |-> << >>, found_markets |-> << >>,
         found_locations |-> << >>, relevant |-> FALSE ]
  ELSE LET content == ContentOf(cand, page)
           fm == find_market_areas(content)
           fl == find_locations(content)
       IN  [ raised |-> FALSE, content |-> content, found_markets |-> fm,
             found_locations |-> fl, relevant |-> (fm # << >> \/ fl # << >>) ]

\* The loop body up to the relevance test, for candidate `cand` and the page
\* fetch_page returned for its url: whether extract_text_from_html raised
\* (caught by the loop's except: continue), the content analysed, the
\* categories found in it, and `if found_markets and found_locations`
Tagged(cand, page) ==
  IF page.kind = "broken"
  THEN [ raised |-> TRUE, content |-> << >>, found_markets |-> << >>,
         found_locations |-> << >>, relevant |-> FALSE ]
  ELSE LET content == ContentOf(cand, page)
           fm == find_market_areas(content)
           fl == find_locations(content)
       IN  [ raised |-> FALSE, content |-> content, found_markets |-> fm,
             found_locations |-> fl, relevant |-> (fm # << >> /\ fl # << >>) ]

\* TextBlob is reached only through analyze_sentiment, which the loop body
\* calls only for a relevant candidate: what it does is drawn only then
NoBlob == [raises |-> FALSE, polarity |-> 0]

BlobsFor(tagged) == IF tagged.relevant THEN BlobOutcomes ELSE { NoBlob }

\* variant: analyze_sentiment called for every candidate, before the
\* relevance test
LoopBody_scoreAll(cand, tagged, blob) ==
  [ url |-> cand.url, raised |-> tagged.raised, content |-> tagged.content,
    found_markets |-> tagged.found_markets,
    found_locations |-> tagged.found_locations,
    scorer_calls |-> IF tagged.raised THEN 0 ELSE 1,
    scorer_failed |-> ~tagged.raised /\ blob.raises,
    appended |-> IF tagged.relevant
                 THEN << [ title           |-> cand.title,
                           content         |-> Prefix(tagged.content, 1000),
                           url             |-> cand.url,
                           market_areas    |-> tagged.found_markets,
                           locations       |-> tagged.found_locations,
                           sentiment_score |-> analyze_sentiment(blob) ] >>
                 ELSE << >> ]

\* The rest of the loop body: for a relevant candidate analyze_sentiment is
\* called and the NewsArticle is appended.  The result adds to `tagged` how
\* often the scorer was called, whether TextBlob raised inside it, and the
\* articles appended (none or one).
LoopBody(cand, tagged, blob) ==
  LET article == [ title           |-> cand.title,
                   content         |-> Prefix(tagged.content, 1000),
                   url             |-> cand.url,
                   market_areas    |-> tagged.found_markets,
                   locations       |-> tagged.found_locations,
                   sentiment_score |-> analyze_sentiment(blob) ]
  IN  [ url |-> cand.url, raised |-> tagged.raised, content |-> tagged.content,
        found_markets |-> tagged.found_markets,
        found_locations |-> tagged.found_locations,
        scorer_calls |-> IF tagged.relevant THEN 1 ELSE 0,
        scorer_failed |-> tagged.relevant /\ blob.raises,
        appended |-> IF tagged.relevant THEN << article >> ELSE << >> ]

-----------------------------------------------------------------------------
(* The run: run_analysis (run_crawler.py) and main (main.py) *)

Entries == { "main", "run_crawler" }

InitCommon ==
  /\ entry \in Entries
  /\ market_areas = InitMarketAreas(entry)
  /\ locations = InitLocations(entry)
  /\ site_idx = 1
  /\ html = NoPage
  /\ articles_data = << >>
  /\ cand_idx = 0
  /\ analyzed_articles = << >>
  /\ last_iter = << >>
  /\ sentiment_calls = 0
  /\ printed = << >>
  /\ report = << >>
  /\ outcome = "running"
  /\ requests = 0
  /\ found_markets = << >>
  /\ found_locations = << >>

Init ==
  /\ InitCommon
  /\ pc = "loop"
  /\ all_articles = << >>
  /\ text = << >>

\* for website in WEBSITES: ... await crawler.analyze_website(website), up to
\* its first await, fetch_page(url)
BeginSite ==
  /\ pc = "loop"
  /\ site_idx <= Len(WEBSITES(entry))
  /\ pc' = "fetch_site"
  /\ UNCHANGED << entry, market_areas, locations, site_idx, html, articles_data, cand_idx,
                  analyzed_articles, last_iter, sentiment_calls, all_articles, printed, report, outcome, requests,
                  text, found_markets, found_locations >>

\* fetch_page(url) returns `page`: analyze_website returns [] on a falsy
\* page, raises if the extraction raises, returns [] if there is no
\* candidate, and otherwise awaits the fetch of the first candidate
SiteFetched(page) ==
  /\ pc = "fetch_site"
  /\ requests + Len(page.previews) <= MaxRunCandidates
  /\ html' = page
  /\ IF Falsy(page)
     THEN /\ pc' = "site_return"
          /\ UNCHANGED << articles_data, cand_idx >>
     ELSE IF page.kind = "broken"
     THEN /\ pc' = "site_raise"
          /\ UNCHANGED << articles_data, cand_idx >>
     ELSE /\ articles_data' = extract_articles_from_page(page, WEBSITES(entry)[site_idx])
          /\ IF articles_data' = << >>
             THEN pc' = "site_return" /\ cand_idx' = cand_idx
             ELSE pc' = "fetch_article" /\ cand_idx' = 1
  /\ UNCHANGED << entry, market_areas, locations, site_idx, analyzed_articles, last_iter,
                  sentiment_calls,
                  all_articles, printed, report, outcome, requests, text, found_markets,
                  found_locations >>

\* fetch_page(article_data['url']) returns `page`: the rest of the loop body
\* runs, then the next candidate is fetched or analyze_website returns
ArticleFetched(page) ==
  /\ pc = "fetch_article"
  /\ LET cand == articles_data[cand_idx]
         tagged == Tagged(cand, page)
     IN  \E blob \in BlobsFor(tagged) :
           LET done == LoopBody(cand, tagged, blob)
           IN  /\ analyzed_articles' = analyzed_articles \o done.appended
               /\ sentiment_calls' = sentiment_calls + done.scorer_calls
               /\ last_iter' = << done >>
  /\ IF cand_idx < Len(articles_data)
     THEN cand_idx' = cand_idx + 1 /\ pc' = "fetch_article"
     ELSE cand_idx' = cand_idx /\ pc' = "site_return"
  /\ requests' = requests + 1
  /\ UNCHANGED << entry, market_areas, locations, site_idx, html, articles_data,
                  all_articles, printed, report, outcome, text, found_markets,
                  found_locations >>

\* variant: all_articles = articles in place of all_articles.extend(articles)
SiteReturned_assign ==
  /\ pc = "site_return"
  /\ all_articles' = analyzed_articles
  /\ printed' = Append(printed, [ site         |-> WEBSITES(entry)[site_idx],
                                  fetch_failed |-> html.kind = "none",
                                  error        |-> FALSE,
                                  found        |-> Len(analyzed_articles) ])
  /\ site_idx' = site_idx + 1
  /\ html' = NoPage
  /\ articles_data' = << >>
  /\ cand_idx' = 0
  /\ analyzed_articles' = << >>
  /\ last_iter' = << >>
  /\ sentiment_calls' = 0
  /\ pc' = "loop"
  /\ UNCHANGED << entry, market_areas, locations, report, outcome, requests, text,
                  found_markets, found_locations >>

\* analyze_website returned: all_articles.extend(articles), the count is
\* printed, and the loop goes on with the next site (fetch_page has logged
\* the failure when it returned None)
SiteReturned ==
  /\ pc = "site_return"
  /\ all_articles' = all_articles \o analyzed_articles
  /\ printed' = Append(printed, [ site         |-> WEBSITES(entry)[site_idx],
                                  fetch_failed |-> html.kind = "none",
                                  error        |-> FALSE,
                                  found        |-> Len(analyzed_articles) ])
  /\ site_idx' = site_idx + 1
  /\ html' = NoPage
  /\ articles_data' = << >>
  /\ cand_idx' = 0
  /\ analyzed_articles' = << >>
  /\ last_iter' = << >>
  /\ sentiment_calls' = 0
  /\ pc' = "loop"
  /\ UNCHANGED << entry, market_areas, locations, report, outcome, requests, text,
                  found_markets, found_locations >>

\* variant: no except around analyze_website, the exception ends the run
SiteRaised_uncaught ==
  /\ pc = "site_raise"
  /\ outcome' = "failed"
  /\ pc' = "done"
  /\ UNCHANGED << entry, market_areas, locations, site_idx, html, articles_data,
                  cand_idx, analyzed_articles, last_iter, sentiment_calls,
                  all_articles, printed, report, requests, text, found_markets,
                  found_locations >>

\* analyze_website raised: except Exception prints the error, and the loop
\* goes on with the next site
SiteRaised ==
  /\ pc = "site_raise"
  /\ printed' = Append(printed, [ site         |-> WEBSITES(entry)[site_idx],
                                  fetch_failed |-> FALSE,
                                  error        |-> TRUE,
                                  found        |-> 0 ])
  /\ site_idx' = site_idx + 1
  /\ html' = NoPage
  /\ articles_data' = << >>
  /\ cand_idx' = 0
  /\ analyzed_articles' = << >>
  /\ last_iter' = << >>
  /\ sentiment_calls' = 0
  /\ pc' = "loop"
  /\ UNCHANGED << entry, market_areas, locations, all_articles, report, outcome, requests,
                  text, found_markets, found_locations >>

\* variant: the report generated without `if all_articles:`
Finish_alwaysReport ==
  /\ pc = "loop"
  /\ site_idx > Len(WEBSITES(entry))
  /\ report' = Append(report, generate_market_report(all_articles))
  /\ outcome' = "report"
  /\ pc' = "done"
  /\ UNCHANGED << entry, market_areas, locations, site_idx, html, articles_data, cand_idx,
                  analyzed_articles, last_iter, sentiment_calls, all_articles, printed,
                  requests, text, found_markets, found_locations >>

\* after the loop: if all_articles: the report is generated (and saved and
\* summarised); else the 'no relevant articles' message is printed
Finish ==
  /\ pc = "loop"
  /\ site_idx > Len(WEBSITES(entry))
  /\ IF all_articles # << >>
     THEN /\ report' = Append(report, generate_market_report(all_articles))
          /\ outcome' = "report"
     ELSE /\ report' = report
          /\ outcome' = "no_relevant_articles"
  /\ pc' = "done"
  /\ UNCHANGED << entry, market_areas, locations, site_idx, html, articles_data, cand_idx,
                  analyzed_articles, last_iter, sentiment_calls, all_articles, printed, requests, text,
                  found_markets, found_locations >>

Next ==
  \/ BeginSite
  \/ \E page \in SitePages : SiteFetched(page)
  \/ \E page \in ArticlePages : ArticleFetched(page)
  \/ SiteReturned
  \/ SiteRaised
  \/ Finish

Spec == Init /\ [][Next]_vars

\* the event loop runs a coroutine that can continue
FairSpec == Spec /\ WF_vars(Next)

-----------------------------------------------------------------------------
(* generate_market_report called on an arbitrary article list *)

\* the tags and scores of the articles passed in; an article may carry no
\* market, and 'immobiliare' is a market main() does not track
AggMarketTags ==
  { << >>, << tecnologia >>, << tecnologia, finanza >>, << immobiliare >> }

AggLocationTags == { << italia >>, << italia, usa >> }

AggScores == { 1000, 4000, 6000, 6001 }

AggArticles ==
  { [ title |-> 0, content |-> << >>, url |-> << "", 0 >>,
      market_areas |-> ms, locations |-> ls, sentiment_score |-> sc ] :
    ms \in AggMarketTags, ls \in AggLocationTags, sc \in AggScores }

\* a crawler built as in main(), and a list of up to MaxArticles articles
AggInit ==
  /\ InitCommon
  /\ entry = "main"
  /\ pc = "call_report"
  /\ all_articles \in SeqsUpTo(AggArticles, MaxArticles)
  /\ text = << >>

\* report = crawler.generate_market_report(all_articles)
CallGenerateReport ==
  /\ pc = "call_report"
  /\ report' = Append(report, generate_market_report(all_articles))
  /\ pc' = "report_returned"
  /\ UNCHANGED << entry, market_areas, locations, site_idx, html, articles_data, cand_idx,
                  analyzed_articles, last_iter, sentiment_calls, all_articles, printed,
                  outcome, requests, text, found_markets, found_locations >>

\* the same call made a second time on the same crawler and the same list:
\* the function assigns to its local `report` only, so the list, the
\* articles and the tracked lists are left as they are
CallGenerateReportAgain ==
  /\ pc = "report_returned"
  /\ report' = Append(report, generate_market_report(all_articles))
  /\ pc' = "report_returned_again"
  /\ UNCHANGED << entry, market_areas, locations, site_idx, html, articles_data, cand_idx,
                  analyzed_articles, last_iter, sentiment_calls, all_articles, printed,
                  outcome, requests, text, found_markets, found_locations >>

AggNext == CallGenerateReport \/ CallGenerateReportAgain

AggSpec == AggInit /\ [][AggNext]_vars

-----------------------------------------------------------------------------
(* find_market_areas and find_locations called on an arbitrary text *)

\* pieces the texts are put together from: keywords in mixed case, a keyword
\* split in two ("Ita" + "ly"), a two-word keyword ("New" + " " + "York"), a
\* keyword of a market main() does not track ("Case"), and the name of a
\* tracked market the vocabulary has no entry for ("Salute")
TagFragments ==
  { << "T","e","c","h" >>, << "a","I" >>, << " " >>, << "I","t","a" >>,
    << "l","y" >>, << "N","e","w" >>, << "Y","o","r","k" >>,
    << "C","a","s","e" >>, << "S","a","l","u","t","e" >> }

RECURSIVE TextsUpTo(_)
\* the concatenations of at most n fragments
TextsUpTo(n) ==
  IF n = 0 THEN { << >> }
  ELSE LET prev == TextsUpTo(n - 1)
       IN  prev \cup { t \o f : t \in prev, f \in TagFragments }

TagInit ==
  /\ InitCommon
  /\ pc = "call_tagger"
  /\ all_articles = << >>
  /\ text \in TextsUpTo(MaxFrags)

\* found_markets = self.find_market_areas(text);
\* found_locations = self.find_locations(text)
CallTagger ==
  /\ pc = "call_tagger"
  /\ found_markets' = find_market_areas(text)
  /\ found_locations' = find_locations(text)
  /\ pc' = "tagger_returned"
  /\ UNCHANGED << entry, market_areas, locations, site_idx, html, articles_data, cand_idx,
                  analyzed_articles, last_iter, sentiment_calls, all_articles, printed,
                  report, outcome, requests, text >>

TagNext == CallTagger

TagSpec == TagInit /\ [][TagNext]_vars

-----------------------------------------------------------------------------
(* Properties of the aggregator *)

\* the report the latest generate_market_report call returned
TheReport == report[Len(report)]

\* positions in all_articles of the articles tagged with market m / location l
MarketIdx(m) ==
  { i \in 1..Len(all_articles) : m \in Range(all_articles[i].market_areas) }

LocationIdx(l) ==
  { i \in 1..Len(all_articles) : l \in Range(all_articles[i].locations) }

RECURSIVE ScoreSum(_)
\* the sum of the scores of the articles at the positions I
ScoreSum(I) ==
  IF I = {} THEN 0
  ELSE LET i == CHOOSE j \in I : TRUE
       IN  all_articles[i].sentiment_score + ScoreSum(I \ {i})

\* v (in hundredths) is the mean of the scores at the positions I rounded to
\* two decimals: no hundredth is nearer to the mean than v
IsMeanRounded(v, I) ==
  LET d == v * Cardinality(I) - ScoreSum(I)
  IN  I # {} /\ 2 * d <= Cardinality(I) /\ -2 * d <= Cardinality(I)

\* C1: in the report of any article list, every entry under markets,
\* locations and market_location_matrix has article_count equal to the number
\* of articles of the list that satisfy the entry's filter, and
\* average_sentiment equal to the mean of exactly those articles' scores,
\* rounded to two decimals.
C1_CountAndMean ==
  pc = "report_returned" =>
    /\ \A m \in DOMAIN TheReport.markets :
         /\ TheReport.markets[m].article_count = Cardinality(MarketIdx(m))
         /\ IsMeanRounded(TheReport.markets[m].average_sentiment, MarketIdx(m))
    /\ \A l \in DOMAIN TheReport.locations :
         /\ TheReport.locations[l].article_count = Cardinality(LocationIdx(l))
         /\ IsMeanRounded(TheReport.locations[l].average_sentiment, LocationIdx(l))
    /\ \A k \in DOMAIN TheReport.market_location_matrix :
         LET e == TheReport.market_location_matrix[k]
             both == MarketIdx(e.market) \cap LocationIdx(e.location)
         IN  /\ e.article_count = Cardinality(both)
             /\ IsMeanRounded(e.average_sentiment, both)

\* C1 witness: the scores 60 and 40, both tagged tecnologia, one of them also
\* tagged usa: the tecnologia entry reports 2 articles, 50.0, neutral
C1_Witness ==
  /\ pc = "report_returned"
  /\ Len(all_articles) = 2
  /\ { all_articles[i].sentiment_score : i \in 1..2 } = { 6000, 4000 }
  /\ tecnologia \in DOMAIN TheReport.markets
  /\ TheReport.markets[tecnologia] =
       [ article_count |-> 2, average_sentiment |-> 5000, sentiment_trend |-> "neutral" ]
  /\ usa \in DOMAIN TheReport.locations
  /\ TheReport.locations[usa].article_count = 1

\* the trend a reader derives from a reported average (in hundredths)
TrendOfReported(v) ==
  IF v > 6000 THEN "positive" ELSE IF v < 4000 THEN "negative" ELSE "neutral"

\* the entries of a report, whatever mapping they are under
EntriesOf(r) ==
  { [ average_sentiment |-> r.markets[m].average_sentiment,
      sentiment_trend |-> r.markets[m].sentiment_trend ] : m \in DOMAIN r.markets }
  \cup
  { [ average_sentiment |-> r.locations[l].average_sentiment,
      sentiment_trend |-> r.locations[l].sentiment_trend ] : l \in DOMAIN r.locations }
  \cup
  { [ average_sentiment |-> r.market_location_matrix[k].average_sentiment,
      sentiment_trend |-> r.market_location_matrix[k].sentiment_trend ] :
    k \in DOMAIN r.market_location_matrix }

\* C2: in every entry of a report the trend is the function of the reported
\* average_sentiment: positive exactly above 60, negative exactly below 40,
\* neutral otherwise (so 60.0 is never reported with 'positive').
C2_TrendFromReportedAverage ==
  \A n \in 1..Len(report) :
    \A e \in EntriesOf(report[n]) :
      e.sentiment_trend = TrendOfReported(e.average_sentiment)

\* C3: a key is present under markets, locations or the matrix exactly when
\* some article satisfies its filter; no entry has article_count 0; every
\* key is a tracked market, a tracked location, or the key of a pair of them.
C3_KeysExactlyNonEmpty ==
  pc = "report_returned" =>
    /\ DOMAIN TheReport.markets \subseteq Range(market_areas)
    /\ DOMAIN TheReport.locations \subseteq Range(locations)
    /\ DOMAIN TheReport.market_location_matrix \subseteq
         { MatrixKey(m, l) : m \in Range(market_areas), l \in Range(locations) }
    /\ \A m \in Range(market_areas) :
         m \in DOMAIN TheReport.markets <=> MarketIdx(m) # {}
    /\ \A l \in Range(locations) :
         l \in DOMAIN TheReport.locations <=> LocationIdx(l) # {}
    /\ \A m \in Range(market_areas), l \in Range(locations) :
         MatrixKey(m, l) \in DOMAIN TheReport.market_location_matrix
           <=> MarketIdx(m) \cap LocationIdx(l) # {}
    /\ \A m \in DOMAIN TheReport.markets : TheReport.markets[m].article_count > 0
    /\ \A l \in DOMAIN TheReport.locations : TheReport.locations[l].article_count > 0
    /\ \A k \in DOMAIN TheReport.market_location_matrix :
         TheReport.market_location_matrix[k].article_count > 0

\* C3 witness: a list holding a tecnologia article, an article of a market
\* that is not tracked and no finanza article: tecnologia is a key, the
\* tracked finanza and the untracked immobiliare are not
C3_Witness ==
  /\ pc = "report_returned"
  /\ MarketIdx(tecnologia) # {}
  /\ MarketIdx(immobiliare) # {}
  /\ MarketIdx(finanza) = {}
  /\ DOMAIN TheReport.markets = { tecnologia }
  /\ DOMAIN TheReport.locations = { italia }
  /\ DOMAIN TheReport.market_location_matrix = { MatrixKey(tecnologia, italia) }

\* the list without its i-th article
WithoutAt(arts, i) == SubSeq(arts, 1, i - 1) \o SubSeq(arts, i + 1, Len(arts))

\* the article_count a matrix reports for the pair (m, l): 0 when the key is
\* absent
MatrixCount(matrix, m, l) ==
  IF MatrixKey(m, l) \in DOMAIN matrix THEN matrix[MatrixKey(m, l)].article_count
  ELSE 0

\* C6: an article contributes to the matrix entry (m, l) exactly when m is
\* in its market_areas and l in its locations: taking the article out of the
\* list lowers the count of (m, l) by one in that case and leaves it as it
\* is in every other case.
C6_MatrixContribution ==
  pc = "report_returned" =>
    \A i \in 1..Len(all_articles) :
      LET without == ReportMatrix(WithoutAt(all_articles, i))
      IN  \A m \in Range(market_areas), l \in Range(locations) :
            MatrixCount(TheReport.market_location_matrix, m, l)
              - MatrixCount(without, m, l)
            = IF /\ m \in Range(all_articles[i].market_areas)
                 /\ l \in Range(all_articles[i].locations)
              THEN 1 ELSE 0

\* C6 witness: finanza and tecnologia tracked, one article tagged
\* markets = {tecnologia}, locations = {italia, usa}: it is counted under
\* (tecnologia, italia) and (tecnologia, usa) and under no finanza entry
C6_Witness ==
  /\ pc = "report_returned"
  /\ Len(all_articles) = 1
  /\ all_articles[1].market_areas = << tecnologia >>
  /\ all_articles[1].locations = << italia, usa >>
  /\ finanza \in Range(market_areas)
  /\ DOMAIN TheReport.market_location_matrix =
       { MatrixKey(tecnologia, italia), MatrixKey(tecnologia, usa) }
  /\ \A k \in DOMAIN TheReport.market_location_matrix :
       TheReport.market_location_matrix[k].article_count = 1

-----------------------------------------------------------------------------
(* Properties of the tagger *)

\* the keyword kw (lower case) occurs in the text t, in some letter case
OccursAnyCase(kw, t) ==
  \E i \in 0..(Len(t) - Len(kw)) : \A j \in 1..Len(kw) : LowerChar(t[i + j]) = kw[j]

\* the keys of a vocabulary and the keywords it lists for category c
KeysOf(vocab) == { vocab[k][1] : k \in 1..Len(vocab) }

KeywordsOf(vocab, c) ==
  UNION { Range(vocab[k][2]) : k \in { n \in 1..Len(vocab) : vocab[n][1] = c } }

NoDuplicates(lst) ==
  \A i, j \in 1..Len(lst) : i # j => lst[i] # lst[j]

\* found is what the claim asks of the tagger for the text t
TaggerResultOk(found, vocab, tracked, t) ==
  /\ Range(found) \subseteq KeysOf(vocab) \cap Range(tracked)
  /\ NoDuplicates(found)
  /\ \A c \in Range(tracked) :
       c \in Range(found) <=> \E kw \in KeywordsOf(vocab, c) : OccursAnyCase(kw, t)

-----------------------------------------------------------------------------
(* Properties of analyze_website and of the run *)

\* the tagged articles that exist: those of finished sites and those of the
\* site being analysed
TaggedArticles == Range(all_articles) \cup Range(analyzed_articles)

\* C4: the loop body appends a tagged article for a candidate exactly when
\* both the markets and the locations found in its content are non-empty;
\* every tagged article has non-empty market_areas and locations, both within
\* the tracked lists; a discarded candidate is no article of the collection,
\* so no count of the report includes it.
C4_TaggedIffMarketAndLocation ==
  /\ \A a \in TaggedArticles :
       /\ a.market_areas # << >> /\ a.locations # << >>
       /\ Range(a.market_areas) \subseteq Range(market_areas)
       /\ Range(a.locations) \subseteq Range(locations)
  /\ last_iter # << >> =>
       LET d == last_iter[1]
       IN  /\ d.appended # << >> <=> (d.found_markets # << >> /\ d.found_locations # << >>)
           /\ d.appended # << >> =>
                /\ analyzed_articles # << >>
                /\ analyzed_articles[Len(analyzed_articles)] = d.appended[1]
                /\ d.appended[1].url = d.url
                /\ d.appended[1].market_areas = d.found_markets
                /\ d.appended[1].locations = d.found_locations
           /\ d.appended = << >> => \A a \in TaggedArticles : a.url # d.url
  /\ \A n \in 1..Len(report) :
       /\ report[n].total_articles = Len(all_articles)
       /\ \A m \in DOMAIN report[n].markets :
            report[n].markets[m].article_count <= Len(all_articles)
       /\ \A l \in DOMAIN report[n].locations :
            report[n].locations[l].article_count <= Len(all_articles)

\* C4 witness: on one page a first candidate was tagged and the second,
\* whose content names a market and no location, was discarded
C4_Witness ==
  /\ pc = "site_return"
  /\ last_iter # << >>
  /\ last_iter[1].found_markets # << >>
  /\ last_iter[1].found_locations = << >>
  /\ last_iter[1].appended = << >>
  /\ Len(articles_data) = 2
  /\ Len(analyzed_articles) = 1

\* the positions in all_articles of the articles that came from `site`
ArticlesOf(site) == { i \in 1..Len(all_articles) : all_articles[i].url[1] = site }

\* what holds of the run loop in every state
C7_RunInvariant ==
  /\ Len(printed) = site_idx - 1
  /\ site_idx <= Len(WEBSITES(entry)) + 1
  /\ \A n \in 1..Len(printed) :
       /\ printed[n].site = WEBSITES(entry)[n]
       /\ Cardinality(ArticlesOf(printed[n].site)) = printed[n].found
       /\ (printed[n].fetch_failed \/ printed[n].error) => printed[n].found = 0
  /\ (pc = "site_return" /\ Falsy(html)) => analyzed_articles = << >>
  /\ pc # "done" => outcome = "running"
  /\ pc = "done" =>
       /\ Len(printed) = Len(WEBSITES(entry))
       /\ outcome \in { "report", "no_relevant_articles" }
       /\ outcome = "report" => Len(report) = 1
       /\ outcome = "no_relevant_articles" => report = << >>

\* the steps the run can still take, at most: per site not yet begun the
\* start, the site fetch, one fetch per candidate and the return; then the
\* final step
StepsLeft ==
  LET perSite == MaxRunCandidates + 3
      sitesLeft == Len(WEBSITES(entry)) + 1 - site_idx
  IN  CASE pc = "done" -> 0
        [] pc = "loop" -> sitesLeft * perSite + 1
        [] pc = "fetch_site" -> sitesLeft * perSite
        [] pc = "fetch_article" ->
             (sitesLeft - 1) * perSite + 1 + (Len(articles_data) - cand_idx + 1) + 1
        [] OTHER -> (sitesLeft - 1) * perSite + 1 + 1

\* a step of the run is possible: the loop takes the next site or finishes,
\* a pending fetch returns, a return or an exception reaches run_analysis
CanStep ==
  \/ pc = "loop" /\ site_idx <= Len(WEBSITES(entry)) + 1
  \/ pc = "fetch_site" /\ requests <= MaxRunCandidates
  \/ pc = "fetch_article" /\ cand_idx \in 1..Len(articles_data)
  \/ pc \in { "site_return", "site_raise" }

C8_ReportsZeroArticles ==
  (pc = "done" /\ all_articles = << >>) =>
    /\ Len(report) = 1
    /\ report[1].total_articles = 0
    /\ DOMAIN report[1].markets = {}
    /\ DOMAIN report[1].locations = {}
    /\ DOMAIN report[1].market_location_matrix = {}

\* C8 amended: with no relevant candidate the run does not fail; it ends
\* with the 'no relevant articles' outcome and generates no report at all,
\* so there is no total_articles figure and no entry.
C8_NoReportWhenNothingRelevant ==
  (pc = "done" /\ all_articles = << >>) =>
    /\ outcome = "no_relevant_articles"
    /\ report = << >>

\* C8 witness: the run is over, candidates were analysed and none was
\* relevant
C8_Witness ==
  /\ pc = "done"
  /\ all_articles = << >>
  /\ requests > 0
  /\ outcome = "no_relevant_articles"

\* C9 as stated: analyze_sentiment is called exactly once for every
\* candidate extracted from the page.
C9_ScoredOncePerCandidate ==
  pc = "site_return" => sentiment_calls = Len(articles_data)

\* C9 amended: analyze_sentiment is called exactly once for every candidate
\* that passes the market+location filter and not at all for the others.
C9_ScoredOncePerRelevantCandidate ==
  /\ last_iter # << >> =>
       last_iter[1].scorer_calls =
         IF last_iter[1].found_markets # << >> /\ last_iter[1].found_locations # << >>
         THEN 1 ELSE 0
  /\ sentiment_calls = Len(analyzed_articles)
  /\ sentiment_calls <= Len(articles_data)

\* C9 witness: a page with two candidates was analysed and the scorer was
\* called once, the latest candidate not being scored
C9_Witness ==
  /\ pc = "site_return"
  /\ Len(articles_data) = 2
  /\ sentiment_calls = 1
  /\ last_iter[1].scorer_calls = 0

\* polarities at and near the ends of [-1, 1], in units of 1/10000
PolarityEdges == { -10000, -9999, -1, 0, 1, 9999, 10000 }

\* C10: when TextBlob raises inside analyze_sentiment the scorer returns the
\* neutral 50.0, the candidate that passed the filter is still appended, with
\* sentiment_score 50.0, and every tagged article's score lies in [0, 100].
C10_NeutralOnScorerFailure ==
  /\ \A a \in TaggedArticles : a.sentiment_score >= 0 /\ a.sentiment_score <= 10000
  /\ \A p \in PolarityEdges :
       LET v == analyze_sentiment([raises |-> FALSE, polarity |-> p])
       IN  v >= 0 /\ v <= 10000
  /\ analyze_sentiment([raises |-> TRUE, polarity |-> 0]) = 5000
  /\ (last_iter # << >> /\ last_iter[1].scorer_failed) =>
       /\ ~last_iter[1].raised
       /\ last_iter[1].appended # << >>
       /\ last_iter[1].appended[1].sentiment_score = 5000
       /\ analyzed_articles # << >>
       /\ analyzed_articles[Len(analyzed_articles)] = last_iter[1].appended[1]

\* C10 witness: TextBlob raised for a relevant candidate and its article is
\* the latest tagged one, with score 50.0
C10_Witness ==
  /\ last_iter # << >>
  /\ last_iter[1].scorer_failed
  /\ analyzed_articles # << >>
  /\ analyzed_articles[Len(analyzed_articles)].sentiment_score = 5000
  /\ analyzed_articles[Len(analyzed_articles)].url = last_iter[1].url

-----------------------------------------------------------------------------
(* Properties of repeated aggregation and of the run's single aggregation *)

RECURSIVE FoundUpTo(_)
\* the sum of the counts printed for the first n sites
FoundUpTo(n) == IF n = 0 THEN 0 ELSE printed[n].found + FoundUpTo(n - 1)

\* C12: in every run the aggregation happens at most once and only after
\* analyze_website has returned or raised for every configured site; the
\* report is computed over the finished collection: its total_articles is
\* the sum over the sites of the tagged articles each returned, every site's
\* returned articles are all in the collection, and the report is the one
\* generate_market_report gives for that collection.
C12_AggregatedOnceOverFinishedCollection ==
  /\ Len(report) <= 1
  /\ report # << >> =>
       /\ pc = "done"
       /\ site_idx = Len(WEBSITES(entry)) + 1
       /\ Len(printed) = Len(WEBSITES(entry))
       /\ analyzed_articles = << >>
       /\ report[1].total_articles = FoundUpTo(Len(printed))
       /\ report[1].total_articles = Len(all_articles)
       /\ \A n \in 1..Len(printed) :
            Cardinality(ArticlesOf(printed[n].site)) = printed[n].found
       /\ \A i \in 1..Len(all_articles) :
            \E n \in 1..Len(printed) : all_articles[i].url[1] = printed[n].site
       /\ report[1] = generate_market_report(all_articles)

\* C12 witness: the run is over, two sites returned one tagged article each
\* and the single report counts both
C12_Witness ==
  /\ pc = "done"
  /\ Len(printed) = 2
  /\ printed[1].found = 1
  /\ printed[2].found = 1
  /\ Len(report) = 1
  /\ report[1].total_articles = 2

-----------------------------------------------------------------------------
(* Consistency of the tables of a report built from analysed articles *)

RECURSIVE MatrixSum(_, _)
\* the sum of the article_count of the matrix entries whose keys are in K
MatrixSum(matrix, K) ==
  IF K = {} THEN 0
  ELSE LET k == CHOOSE x \in K : TRUE
       IN  matrix[k].article_count + MatrixSum(matrix, K \ {k})

\* C13: in a report built from the articles analyze_website produced, every
\* market under markets has a matrix entry with that market and every
\* location under locations has a matrix entry with that location; a
\* market's article_count is at most the sum of the counts of its matrix
\* entries (and so for a location); every matrix article_count is at most
\* the counts of its market and of its location, which are at most
\* total_articles.
C13_TablesConsistent ==
  \A n \in 1..Len(report) :
    LET r == report[n]
        x == r.market_location_matrix
        OfMarket(m) == { k \in DOMAIN x : x[k].market = m }
        OfLocation(l) == { k \in DOMAIN x : x[k].location = l }
    IN  /\ \A m \in DOMAIN r.markets :
             /\ OfMarket(m) # {}
             /\ r.markets[m].article_count <= MatrixSum(x, OfMarket(m))
             /\ r.markets[m].article_count <= r.total_articles
        /\ \A l \in DOMAIN r.locations :
             /\ OfLocation(l) # {}
             /\ r.locations[l].article_count <= MatrixSum(x, OfLocation(l))
             /\ r.locations[l].article_count <= r.total_articles
        /\ \A k \in DOMAIN x :
             /\ x[k].market \in DOMAIN r.markets
             /\ x[k].location \in DOMAIN r.locations
             /\ x[k].market \in Range(market_areas)
             /\ x[k].location \in Range(locations)
             /\ k = MatrixKey(x[k].market, x[k].location)
             /\ x[k].article_count <= r.markets[x[k].market].article_count
             /\ x[k].article_count <= r.locations[x[k].location].article_count

\* C13 witness: a run that reported two analysed articles, one of them with
\* two locations: tecnologia counts fewer articles than its matrix entries
\* do together, and the (tecnologia, italia) entry fewer than tecnologia
C13_Witness ==
  /\ pc = "done"
  /\ Len(report) = 1
  /\ report[1].total_articles = 2
  /\ tecnologia \in DOMAIN report[1].markets
  /\ report[1].markets[tecnologia].article_count = 2
  /\ MatrixKey(tecnologia, italia) \in DOMAIN report[1].market_location_matrix
  /\ report[1].market_location_matrix[MatrixKey(tecnologia, italia)].article_count = 1
  /\ report[1].market_location_matrix[MatrixKey(tecnologia, usa)].article_count = 2

====
